---- MODULE Spec2Model ----
(***************************************************************************)
(* Intrusion detector: an HC-SR04 ultrasonic ranging driver polled by a    *)
(* fixed-period control loop (src/code/src/main.rs) that drives an LED, a  *)
(* PWM buzzer, two SG90 servos and an LCD1602 display, next to a USB       *)
(* logger task.                                                            *)
(*                                                                         *)
(* Numbers.  An f64 distance is held exactly, as a whole number of         *)
(* 1/UnitsPerCm centimetres, so 50.0 cm is Cm(50) and -1.0 is 0 - Cm(1);   *)
(* floating-point rounding error is not modelled.  The driver's monotonic  *)
(* clock counts TicksPerUs ticks per microsecond; the two resolutions are  *)
(* such that the distance of every whole number of ticks is a whole number *)
(* of units.  A variable that Rust leaves unassigned is <<>>, an assigned  *)
(* one <<v>>.                                                              *)
(***************************************************************************)
EXTENDS Integers, Sequences, FiniteSets, TLC

VARIABLES
    pc,           \* position of the main task
    loggerTasks,  \* number of logger_task instances spawned
    logPipe,      \* lines handed to the USB logger and not yet sent
    trigger,      \* HC-SR04 trigger line (GPIO 21)
    echo,         \* HC-SR04 echo line (GPIO 20)
    echoRise,     \* ticks from the trigger pulse to the echo's rising edge
    echoWidth,    \* ticks the sensor holds the echo line high
    waited,       \* ticks the driver spent in its current or last wait
    outcome,      \* the value ultrasonic.measure() returned
    unit,         \* main's `unit: f64`
    led,          \* GPIO 2
    config_pwm,   \* main's PwmConfig
    buzzer,       \* configuration applied to PWM_CH1 (GPIO 3)
    sg90_1,       \* GPIO 4
    sg90_2,       \* GPIO 6
    hold,         \* milliseconds of the servo pulse being held, 0 if none
    pos1,         \* width (ms) of the last pulse servo 1 received, 0 if none
    pos2,         \* width (ms) of the last pulse servo 2 received, 0 if none
    str_unit,     \* main's `str_unit: String<64>`
    displayed_distance, \* main's `displayed_distance: String<32>`
    lcd,          \* LCD1602: text shown, cursor position, blink state
    issued,       \* commands issued since the current cycle began
    atCycleStart, \* the actuators as they were when the current cycle began
    delays,       \* inter-cycle delays elapsed since measure was last invoked
    failStreak,   \* consecutive failed cycles, capped at MaxStreak
    remembered,   \* one earlier successful cycle: its distance and end state
    ultrasonic,   \* what HCSR04::new returned: "Ok" or "InitFailure"; "none" before
    everMeasured, \* measure has returned a Measurement at least once
    lastOk        \* the distance of the latest Measurement, if there was one

vars == <<pc, loggerTasks, logPipe, trigger, echo, echoRise, echoWidth, waited,
          outcome, unit, led, config_pwm, buzzer, sg90_1, sg90_2, hold, pos1,
          pos2, str_unit, displayed_distance, lcd, issued, atCycleStart,
          delays, failStreak, remembered, ultrasonic, everMeasured, lastOk>>

----------------------------------------------------------------------------
(* Bounds of the model *)

MaxStreak == 2   \* failStreak stops counting here
LogCap == 1      \* lines the logger pipe holds before it drops new ones

----------------------------------------------------------------------------
(* Fixed-point representation and program constants *)

UnitsPerCm == 20000
TicksPerUs == 343

Cm(n) == n * UnitsPerCm
Us(n) == n * TicksPerUs

ErrSentinel == 0 - Cm(1)           \* main.rs:106  Err(_) => -1.0
LedThreshold == Cm(50)             \* main.rs:118
BuzzerThreshold == Cm(35)          \* main.rs:125
\* (variant) a servo threshold above the buzzer's
ServoThresholdAboveBuzzer == Cm(40)

ServoThreshold == Cm(20)           \* main.rs:133
PwmTop == 65535                    \* main.rs:89   0xFFFF
StrUnitCap == 64                   \* main.rs:75
DisplayedCap == 32                 \* main.rs:76
LongPulseMs == 2                   \* main.rs:138, 163
ShortPulseMs == 1                  \* main.rs:146, 155
SettleMs == 10                     \* main.rs:140, 148, 157, 165

Low == 0
High == 1
Unassigned == <<>>
Never == 0 - 1

----------------------------------------------------------------------------
(* Ranging driver (hc_sr04), constants *)

SoundSpeed == <<343, 10000>>       \* 0.0343 cm per microsecond
StartupTimeout == Us(20000)        \* bound on the wait for the echo start
PulseTimeout == Us(30000)          \* bound on the wait for the echo end
MaxRange == Cm(400)                \* rated maximum range of the sensor

NoOutcome == [tag |-> "None"]
Measurement(d) == [tag |-> "Ok", centimeters |-> d]
Failure(k) == [tag |-> "Err", kind |-> k]
ErrorKinds == {"NoEcho", "EchoTimeout", "InvalidReading"}

RECURSIVE GCD(_, _)
GCD(a, b) == IF b = 0 THEN a ELSE GCD(b, a % b)

\* distance_cm = (speed_of_sound_cm_per_us * dt_us) / 2: units of distance
\* per tick of pulse width, as a fraction in lowest terms
UnitsPerTick ==
    LET num == SoundSpeed[1] * UnitsPerCm
        den == SoundSpeed[2] * TicksPerUs * 2
    IN  <<num \div GCD(num, den), den \div GCD(num, den)>>

DistanceOf(dt) == (dt * UnitsPerTick[1]) \div UnitsPerTick[2]

\* the pulse width whose distance is d
WidthOf(d) == (d * UnitsPerTick[2]) \div UnitsPerTick[1]

Plausible(d) == d > 0 /\ d <= MaxRange

----------------------------------------------------------------------------
(* What the echo line can do after one trigger pulse *)

EchoRises == {Us(150), StartupTimeout, StartupTimeout + 1, Never}

EchoWidths ==
    {0, Never, PulseTimeout, PulseTimeout + 1, WidthOf(MaxRange), WidthOf(MaxRange) + 1}
    \cup {WidthOf(t) + e : t \in {ServoThreshold, BuzzerThreshold, LedThreshold},
                           e \in {0, 1}}

RisesInTime(r) == r # Never /\ r <= StartupTimeout
FallsInTime(w) == w # Never /\ w <= PulseTimeout

----------------------------------------------------------------------------
(* Helpers *)

Actuators ==
    [led |-> led, duty |-> buzzer.compare_b, sg90_1 |-> sg90_1, sg90_2 |-> sg90_2,
     pos1 |-> pos1, pos2 |-> pos2]

\* positions of the main task at which it is suspended in an await
SuspensionPoints ==
    {"startup_delay", "delay", "trigger_hold", "wait_start", "wait_end",
     "s1_hold", "s1_settle", "s2_hold", "s2_settle", "panicked"}

\* log::info! : the line is queued for the logger task, or dropped when the
\* pipe is full
Info(pipe, line) == IF Len(pipe) < LogCap THEN Append(pipe, line) ELSE pipe

Digits == <<"0", "1", "2", "3", "4", "5", "6", "7", "8", "9">>
Digit(n) == Digits[n + 1]

RECURSIVE Decimal(_)
Decimal(n) ==
    IF n < 10 THEN <<Digit(n)>> ELSE Append(Decimal(n \div 10), Digit(n % 10))

\* value rounded to hundredths of a centimetre, ties to even
Hundredths(value) ==
    LET step == UnitsPerCm \div 100
        q == value \div step
        r == value % step
    IN  IF 2 * r > step \/ (2 * r = step /\ q % 2 = 1) THEN q + 1 ELSE q

\* float_to_string: write!(&mut s, "{:.2}", value), as a sequence of characters
float_to_string(value) ==
    LET h == Hundredths(IF value < 0 THEN 0 - value ELSE value)
    IN  (IF value < 0 THEN <<"-">> ELSE <<>>)
        \o Decimal(h \div 100) \o <<".", Digit((h % 100) \div 10), Digit(h % 10)>>

DistancePrefix == <<"D", "i", "s", "t", "a", "n", "c", "e", ":", " ">>

----------------------------------------------------------------------------
(* Initial state: power-on, before main runs *)

Init ==
    /\ pc = "start"
    /\ loggerTasks = 0
    /\ logPipe = <<>>
    /\ trigger = Low
    /\ echo = Low
    /\ echoRise = Never
    /\ echoWidth = Never
    /\ waited = 0
    /\ outcome = NoOutcome
    /\ unit = Unassigned
    /\ led = Low
    /\ config_pwm = [top |-> 0, compare_b |-> 0]
    /\ buzzer = [top |-> 0, compare_b |-> 0]
    /\ sg90_1 = Low
    /\ sg90_2 = Low
    /\ hold = 0
    /\ pos1 = 0
    /\ pos2 = 0
    /\ str_unit = Unassigned
    /\ displayed_distance = Unassigned
    /\ lcd = [text |-> <<>>, cursor |-> <<0, 0>>, blink |-> "unset"]
    /\ issued = <<>>
    /\ atCycleStart = Actuators
    /\ delays = 0
    /\ failStreak = 0
    /\ remembered = <<>>
    /\ ultrasonic = "none"
    /\ everMeasured = FALSE
    /\ lastOk = Unassigned

----------------------------------------------------------------------------
(* main, startup: lines 57-96 *)

\* (variant) the logger task is not spawned
StartWithoutLogger ==
    /\ pc = "start"
    /\ pc' = "startup_delay"
    /\ UNCHANGED <<loggerTasks, logPipe, trigger, echo, echoRise, echoWidth,
                   waited, outcome, unit, led, config_pwm, buzzer, sg90_1,
                   sg90_2, hold, pos1, pos2, str_unit, displayed_distance, lcd,
                   issued, atCycleStart, delays, failStreak, remembered,
                   ultrasonic, everMeasured, lastOk>>

\* lines 57-59: embassy_rp::init, Driver::new, spawner.spawn(logger_task)
Start ==
    /\ pc = "start"
    /\ UNCHANGED <<ultrasonic, everMeasured, lastOk>>
    /\ loggerTasks' = loggerTasks + 1
    /\ pc' = "startup_delay"
    /\ UNCHANGED <<logPipe, trigger, echo, echoRise, echoWidth, waited, outcome,
                   unit, led, config_pwm, buzzer, sg90_1, sg90_2, hold, pos1,
                   pos2, str_unit, displayed_distance, lcd, issued,
                   atCycleStart, delays, failStreak, remembered>>

\* line 61: Timer::after_millis(1000).await completes
StartupDelay ==
    /\ pc = "startup_delay"
    /\ UNCHANGED <<ultrasonic, everMeasured, lastOk>>
    /\ pc' = "lcd_init"
    /\ UNCHANGED <<loggerTasks, logPipe, trigger, echo, echoRise, echoWidth,
                   waited, outcome, unit, led, config_pwm, buzzer, sg90_1,
                   sg90_2, hold, pos1, pos2, str_unit, displayed_distance, lcd,
                   issued, atCycleStart, delays, failStreak, remembered>>

\* lines 63-72: the LCD is created and its cursor blink switched off
LcdInit ==
    /\ pc = "lcd_init"
    /\ UNCHANGED <<ultrasonic, everMeasured, lastOk>>
    /\ lcd' = [lcd EXCEPT !.blink = "Off"]
    /\ pc' = "sensor_init"
    /\ UNCHANGED <<loggerTasks, logPipe, trigger, echo, echoRise, echoWidth,
                   waited, outcome, unit, led, config_pwm, buzzer, sg90_1,
                   sg90_2, hold, pos1, pos2, str_unit, displayed_distance,
                   issued, atCycleStart, delays, failStreak, remembered>>

\* HCSR04::new: Ok when both lines could be configured, Err(InitFailure)
\* otherwise
HCSR04_new(configured) == IF configured THEN "Ok" ELSE "InitFailure"

\* (variant) the result of the construction is not looked at
UnwrapUnchecked(result, next) == next

\* line 83: .unwrap() goes on with an Ok and panics on an Err
Unwrap(result, next) == IF result = "Ok" THEN next ELSE "panicked"

\* lines 79-83: HCSR04::new(PIN_21, PIN_20).unwrap()
SensorInit ==
    /\ pc = "sensor_init"
    /\ UNCHANGED <<everMeasured, lastOk>>
    /\ \E configured \in BOOLEAN :
          /\ ultrasonic' = HCSR04_new(configured)
          /\ pc' = Unwrap(HCSR04_new(configured), "outputs_init")
    /\ UNCHANGED <<loggerTasks, logPipe, trigger, echo, echoRise, echoWidth,
                   waited, outcome, unit, led, config_pwm, buzzer, sg90_1,
                   sg90_2, hold, pos1, pos2, str_unit, displayed_distance, lcd,
                   issued, atCycleStart, delays, failStreak, remembered>>

\* lines 85-96: LED low, PWM top 0xFFFF and compare_b 0, both servo lines low
OutputsInit ==
    /\ pc = "outputs_init"
    /\ UNCHANGED <<ultrasonic, everMeasured, lastOk>>
    /\ led' = Low
    /\ config_pwm' = [top |-> PwmTop, compare_b |-> 0]
    /\ buzzer' = [top |-> PwmTop, compare_b |-> 0]
    /\ sg90_1' = Low
    /\ sg90_2' = Low
    /\ pc' = "delay"
    /\ UNCHANGED <<loggerTasks, logPipe, trigger, echo, echoRise, echoWidth,
                   waited, outcome, unit, hold, pos1, pos2, str_unit,
                   displayed_distance, lcd, issued, delays, failStreak,
                   remembered>>
    /\ atCycleStart' = Actuators'

----------------------------------------------------------------------------
(* main, one cycle of the loop: lines 99-180 *)

\* line 100: Timer::after_millis(200).await completes; the cycle's
\* bookkeeping starts afresh, and the cycle that just ended with a
\* measurement may be the one to remember
Delay ==
    /\ pc = "delay"
    /\ UNCHANGED <<ultrasonic, everMeasured, lastOk>>
    /\ delays' = delays + 1
    /\ issued' = <<>>
    /\ atCycleStart' = Actuators
    /\ outcome' = NoOutcome
    /\ remembered' \in
          {remembered} \cup
          IF outcome.tag = "Ok"
          THEN {<<[d |-> outcome.centimeters, acts |-> Actuators]>>}
          ELSE {}
    /\ pc' = "measure"
    /\ UNCHANGED <<loggerTasks, logPipe, trigger, echo, echoRise, echoWidth,
                   waited, unit, led, config_pwm, buzzer, sg90_1, sg90_2, hold,
                   pos1, pos2, str_unit, displayed_distance, lcd, failStreak>>

----------------------------------------------------------------------------
(* hc_sr04: HCSR04::measure *)

\* measure, step 1: trigger low, then high for the pulse width
MeasureTriggerHigh ==
    /\ pc = "measure"
    /\ UNCHANGED <<ultrasonic, everMeasured, lastOk>>
    /\ trigger' = High
    /\ issued' = Append(issued, "measure")
    /\ delays' = 0
    /\ pc' = "trigger_hold"
    /\ UNCHANGED <<loggerTasks, logPipe, echo, echoRise, echoWidth, waited,
                   outcome, unit, led, config_pwm, buzzer, sg90_1, sg90_2, hold,
                   pos1, pos2, str_unit, displayed_distance, lcd, atCycleStart,
                   failStreak, remembered>>

\* measure, step 1, end of the pulse: trigger low again.  From here on the
\* sensor decides when the echo line rises and for how long it stays high.
MeasureTriggerLow ==
    /\ pc = "trigger_hold"
    /\ UNCHANGED <<ultrasonic, everMeasured, lastOk>>
    /\ trigger' = Low
    /\ echo' = Low
    /\ waited' = 0
    /\ \E r \in EchoRises, w \in EchoWidths :
          /\ echoRise' = r
          /\ echoWidth' = IF RisesInTime(r) THEN w ELSE Never
    /\ pc' = "wait_start"
    /\ UNCHANGED <<loggerTasks, logPipe, outcome, unit, led, config_pwm, buzzer,
                   sg90_1, sg90_2, hold, pos1, pos2, str_unit,
                   displayed_distance, lcd, issued, atCycleStart, delays,
                   failStreak, remembered>>

\* (variant) the wait has no timeout
TimerNeverFires(deadline, edgeAt) == FALSE

\* a wait for an edge under a timeout is ended by the timer when the edge
\* has not come by the deadline
TimerFires(deadline, edgeAt) == edgeAt = Never \/ edgeAt > deadline

\* (variant) one generic timeout for both waits
StartTimedOutAsEchoTimeout == Failure("EchoTimeout")
EndTimedOutAsNoEcho == Failure("NoEcho")

StartTimedOut == Failure("NoEcho")
EndTimedOut == Failure("EchoTimeout")

\* measure, steps 4-7: the distance of a pulse of dt ticks, or InvalidReading
Reading(dt) ==
    IF Plausible(DistanceOf(dt))
    THEN Measurement(DistanceOf(dt))
    ELSE Failure("InvalidReading")

\* measure, step 2: the echo line rose within the startup timeout
EchoStart ==
    /\ pc = "wait_start"
    /\ UNCHANGED <<ultrasonic, everMeasured, lastOk>>
    /\ RisesInTime(echoRise)
    /\ waited' = echoRise
    /\ echo' = High
    /\ pc' = "wait_end"
    /\ UNCHANGED <<loggerTasks, logPipe, trigger, echoRise, echoWidth, outcome,
                   unit, led, config_pwm, buzzer, sg90_1, sg90_2, hold, pos1,
                   pos2, str_unit, displayed_distance, lcd, issued,
                   atCycleStart, delays, failStreak, remembered>>

\* measure, step 2: the startup timeout elapsed first; measure returns
StartupTimeoutElapsed ==
    /\ pc = "wait_start"
    /\ UNCHANGED <<ultrasonic, everMeasured, lastOk>>
    /\ TimerFires(StartupTimeout, echoRise)
    /\ waited' = StartupTimeout
    /\ outcome' = StartTimedOut
    /\ pc' = "match"
    /\ UNCHANGED <<loggerTasks, logPipe, trigger, echo, echoRise, echoWidth,
                   unit, led, config_pwm, buzzer, sg90_1, sg90_2, hold, pos1,
                   pos2, str_unit, displayed_distance, lcd, issued,
                   atCycleStart, delays, failStreak, remembered>>

\* measure, steps 3-7: the echo line fell within the pulse-width timeout; the
\* pulse is converted and measure returns
EchoEnd ==
    /\ pc = "wait_end"
    /\ UNCHANGED ultrasonic
    /\ FallsInTime(echoWidth)
    /\ waited' = echoWidth
    /\ echo' = Low
    /\ outcome' = Reading(echoWidth)
    /\ everMeasured' = (everMeasured \/ Reading(echoWidth).tag = "Ok")
    /\ lastOk' = IF Reading(echoWidth).tag = "Ok"
                 THEN <<Reading(echoWidth).centimeters>> ELSE lastOk
    /\ pc' = "match"
    /\ UNCHANGED <<loggerTasks, logPipe, trigger, echoRise, echoWidth, unit,
                   led, config_pwm, buzzer, sg90_1, sg90_2, hold, pos1, pos2,
                   str_unit, displayed_distance, lcd, issued, atCycleStart,
                   delays, failStreak, remembered>>

\* measure, step 3: the pulse-width timeout elapsed first; measure returns
PulseTimeoutElapsed ==
    /\ pc = "wait_end"
    /\ UNCHANGED <<ultrasonic, everMeasured, lastOk>>
    /\ TimerFires(PulseTimeout, echoWidth)
    /\ waited' = PulseTimeout
    /\ outcome' = EndTimedOut
    /\ pc' = "match"
    /\ UNCHANGED <<loggerTasks, logPipe, trigger, echo, echoRise, echoWidth,
                   unit, led, config_pwm, buzzer, sg90_1, sg90_2, hold, pos1,
                   pos2, str_unit, displayed_distance, lcd, issued,
                   atCycleStart, delays, failStreak, remembered>>

----------------------------------------------------------------------------
(* main, after measure: lines 103-180 *)

\* (variant) a failure becomes the distance 0.0
UnitOfZeroOnError(result) ==
    IF result.tag = "Ok" THEN result.centimeters ELSE 0

\* lines 104-107: Ok(unit) => unit.centimeters, Err(_) => -1.0
UnitOf(result) ==
    IF result.tag = "Ok" THEN result.centimeters ELSE ErrSentinel

\* (variant) the failure test never recognises the substituted value
MeasurementFailedNever(u) == FALSE

\* line 110: if unit < 0.0
MeasurementFailed(u) == u < 0

\* (variant) a failure ends the loop
AfterFailureHalts == "halted"

\* (variant) a failure is retried at once, without the inter-cycle delay
AfterFailureRetries == "measure"

\* line 112: `continue` resumes at the top of the loop, line 100
AfterFailure == "delay"

\* (variant) a failure switches the indicator off before the cycle ends
ResetOnFailure ==
    /\ led' = Low
    /\ issued' = Append(issued, "led.set_low")
    /\ UNCHANGED <<config_pwm, buzzer, sg90_1, sg90_2, hold, pos1, pos2,
                   str_unit, displayed_distance, lcd>>

\* (variant) a failure blanks the display before the cycle ends
ClearDisplayOnFailure ==
    /\ lcd' = [lcd EXCEPT !.text = <<>>, !.cursor = <<0, 0>>]
    /\ issued' = Append(issued, "lcd.clean_display")
    /\ UNCHANGED <<led, config_pwm, buzzer, sg90_1, sg90_2, hold, pos1, pos2,
                   str_unit, displayed_distance>>

\* line 112: `continue` skips lines 117-179, so nothing is driven
SkipActuation ==
    UNCHANGED <<led, config_pwm, buzzer, sg90_1, sg90_2, hold, pos1, pos2,
                str_unit, displayed_distance, lcd, issued>>

\* (variant) an indicator that is on stays on a little beyond the threshold
LedLevelHysteresis(u) ==
    IF u <= LedThreshold \/ (led = High /\ u <= LedThreshold + 1) THEN High ELSE Low

\* (variant) the comparison is strict
LedLevelStrict(u) == IF u < LedThreshold THEN High ELSE Low

\* line 118: if unit <= 50.0
LedLevel(u) == IF u <= LedThreshold THEN High ELSE Low

\* (variant) the tone is given the full counter range
BuzzerCompareFull(u, top) == IF u <= BuzzerThreshold THEN top ELSE 0

\* lines 125-129: compare_b = top / 2 if unit <= 35.0, else 0
BuzzerCompare(u, top) == IF u <= BuzzerThreshold THEN top \div 2 ELSE 0

\* line 133: if unit <= 20.0
ServoNear(u) == u <= ServoThreshold

\* lines 138, 155: the pulse servo 1 is given
Servo1PulseMs(u) == IF ServoNear(u) THEN LongPulseMs ELSE ShortPulseMs

\* (variant) servo 2 is given the pulse of servo 1
Servo2PulseAsServo1(u) == IF ServoNear(u) THEN LongPulseMs ELSE ShortPulseMs

\* lines 146, 163: the pulse servo 2 is given
Servo2PulseMs(u) == IF ServoNear(u) THEN ShortPulseMs ELSE LongPulseMs

Min(a, b) == IF a < b THEN a ELSE b

\* lines 104-107: the match on measure's result
Match ==
    /\ pc = "match"
    /\ UNCHANGED <<ultrasonic, everMeasured, lastOk>>
    /\ unit' = <<UnitOf(outcome)>>
    /\ pc' = "check"
    /\ UNCHANGED <<loggerTasks, logPipe, trigger, echo, echoRise, echoWidth,
                   waited, outcome, led, config_pwm, buzzer, sg90_1, sg90_2,
                   hold, pos1, pos2, str_unit, displayed_distance, lcd, issued,
                   atCycleStart, delays, failStreak, remembered>>

\* lines 110-113: a failed measurement is logged and the cycle ends
CheckFailed ==
    /\ pc = "check"
    /\ UNCHANGED <<ultrasonic, everMeasured, lastOk>>
    /\ MeasurementFailed(unit[1])
    /\ logPipe' = Info(logPipe, "Error in distance measurement")
    /\ SkipActuation
    /\ unit' = Unassigned
    /\ failStreak' = Min(failStreak + 1, MaxStreak)
    /\ pc' = AfterFailure
    /\ UNCHANGED <<loggerTasks, trigger, echo, echoRise, echoWidth, waited,
                   outcome, atCycleStart, delays, remembered>>

\* lines 110, 117-122: the measurement is good; the LED is driven
CheckOkSetLed ==
    /\ pc = "check"
    /\ UNCHANGED <<ultrasonic, everMeasured, lastOk>>
    /\ ~MeasurementFailed(unit[1])
    /\ led' = LedLevel(unit[1])
    /\ issued' = Append(issued, IF LedLevel(unit[1]) = High THEN "led.set_high"
                                                            ELSE "led.set_low")
    /\ pc' = "buzzer"
    /\ UNCHANGED <<loggerTasks, logPipe, trigger, echo, echoRise, echoWidth,
                   waited, outcome, unit, config_pwm, buzzer, sg90_1, sg90_2,
                   hold, pos1, pos2, str_unit, displayed_distance, lcd,
                   atCycleStart, delays, failStreak, remembered>>

\* lines 125-130: compare_b is chosen and the configuration applied
SetBuzzer ==
    /\ pc = "buzzer"
    /\ UNCHANGED <<ultrasonic, everMeasured, lastOk>>
    /\ config_pwm' = [config_pwm EXCEPT
                         !.compare_b = BuzzerCompare(unit[1], config_pwm.top)]
    /\ buzzer' = config_pwm'
    /\ issued' = Append(issued, "buzzer.set_config")
    /\ pc' = "s1_high"
    /\ UNCHANGED <<loggerTasks, logPipe, trigger, echo, echoRise, echoWidth,
                   waited, outcome, unit, led, sg90_1, sg90_2, hold, pos1, pos2,
                   str_unit, displayed_distance, lcd, atCycleStart, delays,
                   failStreak, remembered>>

\* the entry of `issued` for Timer::after(Duration::from_millis(ms)).await
TimerEntry(ms) ==
    IF ms = ShortPulseMs THEN "wait_1ms"
    ELSE IF ms = LongPulseMs THEN "wait_2ms" ELSE "wait_10ms"

\* lines 137-138, 154-155: servo 1's line goes high and the pulse is held
Servo1High ==
    /\ pc = "s1_high"
    /\ UNCHANGED <<ultrasonic, everMeasured, lastOk>>
    /\ sg90_1' = High
    /\ hold' = Servo1PulseMs(unit[1])
    /\ issued' = issued \o <<"sg90_1.set_high", TimerEntry(Servo1PulseMs(unit[1]))>>
    /\ pc' = "s1_hold"
    /\ UNCHANGED <<loggerTasks, logPipe, trigger, echo, echoRise, echoWidth,
                   waited, outcome, unit, led, config_pwm, buzzer, sg90_2, pos1,
                   pos2, str_unit, displayed_distance, lcd, atCycleStart,
                   delays, failStreak, remembered>>

\* (variant) servo 1's line is not taken low after the pulse
Servo1StaysHigh ==
    /\ pc = "s1_hold"
    /\ pos1' = hold
    /\ hold' = 0
    /\ issued' = issued \o <<"sg90_1.set_low", TimerEntry(SettleMs)>>
    /\ pc' = "s1_settle"
    /\ UNCHANGED <<loggerTasks, logPipe, trigger, echo, echoRise, echoWidth,
                   waited, outcome, unit, led, config_pwm, buzzer, sg90_1,
                   sg90_2, pos2, str_unit, displayed_distance, lcd,
                   atCycleStart, delays, failStreak, remembered, ultrasonic,
                   everMeasured, lastOk>>

\* lines 139-140, 156-157: the pulse is over, the line goes low and the
\* settle delay begins
Servo1Low ==
    /\ pc = "s1_hold"
    /\ UNCHANGED <<ultrasonic, everMeasured, lastOk>>
    /\ sg90_1' = Low
    /\ pos1' = hold
    /\ hold' = 0
    /\ issued' = issued \o <<"sg90_1.set_low", TimerEntry(SettleMs)>>
    /\ pc' = "s1_settle"
    /\ UNCHANGED <<loggerTasks, logPipe, trigger, echo, echoRise, echoWidth,
                   waited, outcome, unit, led, config_pwm, buzzer, sg90_2, pos2,
                   str_unit, displayed_distance, lcd, atCycleStart, delays,
                   failStreak, remembered>>

\* lines 140, 145-146 / 157, 162-163: servo 1's settle delay is over; servo
\* 2's line goes high and the pulse is held
Servo2High ==
    /\ pc = "s1_settle"
    /\ UNCHANGED <<ultrasonic, everMeasured, lastOk>>
    /\ sg90_2' = High
    /\ hold' = Servo2PulseMs(unit[1])
    /\ issued' = issued \o <<"sg90_2.set_high", TimerEntry(Servo2PulseMs(unit[1]))>>
    /\ pc' = "s2_hold"
    /\ UNCHANGED <<loggerTasks, logPipe, trigger, echo, echoRise, echoWidth,
                   waited, outcome, unit, led, config_pwm, buzzer, sg90_1, pos1,
                   pos2, str_unit, displayed_distance, lcd, atCycleStart,
                   delays, failStreak, remembered>>

\* lines 147-148, 164-165: the pulse is over, the line goes low and the
\* settle delay begins
Servo2Low ==
    /\ pc = "s2_hold"
    /\ UNCHANGED <<ultrasonic, everMeasured, lastOk>>
    /\ sg90_2' = Low
    /\ pos2' = hold
    /\ hold' = 0
    /\ issued' = issued \o <<"sg90_2.set_low", TimerEntry(SettleMs)>>
    /\ pc' = "s2_settle"
    /\ UNCHANGED <<loggerTasks, logPipe, trigger, echo, echoRise, echoWidth,
                   waited, outcome, unit, led, config_pwm, buzzer, sg90_1, pos1,
                   str_unit, displayed_distance, lcd, atCycleStart, delays,
                   failStreak, remembered>>

\* String<N>: a write or push that does not fit fails, and unwrap() panics
Fits(str, cap) == Len(str) <= cap

\* lines 148/165, 170-172: servo 2's settle delay is over; the distance is
\* formatted and appended to "Distance: "
Format ==
    /\ pc = "s2_settle"
    /\ UNCHANGED <<ultrasonic, everMeasured, lastOk>>
    /\ LET s == float_to_string(unit[1])
           d == DistancePrefix \o s
       IN  IF Fits(s, StrUnitCap) /\ Fits(d, DisplayedCap)
           THEN /\ str_unit' = <<s>>
                /\ displayed_distance' = <<d>>
                /\ pc' = "log"
           ELSE /\ pc' = "panicked"
                /\ UNCHANGED <<str_unit, displayed_distance>>
    /\ UNCHANGED <<loggerTasks, logPipe, trigger, echo, echoRise, echoWidth,
                   waited, outcome, unit, led, config_pwm, buzzer, sg90_1,
                   sg90_2, hold, pos1, pos2, lcd, issued, atCycleStart, delays,
                   failStreak, remembered>>

\* line 175: info!("Distance: {:.2} cm", unit)
LogDistance ==
    /\ pc = "log"
    /\ UNCHANGED <<ultrasonic, everMeasured, lastOk>>
    /\ logPipe' = Info(logPipe, "Distance")
    /\ pc' = "lcd_blink"
    /\ UNCHANGED <<loggerTasks, trigger, echo, echoRise, echoWidth, waited,
                   outcome, unit, led, config_pwm, buzzer, sg90_1, sg90_2, hold,
                   pos1, pos2, str_unit, displayed_distance, lcd, issued,
                   atCycleStart, delays, failStreak, remembered>>

\* line 176: lcd.set_cursor_blink_state(State::Off)
LcdBlinkOff ==
    /\ pc = "lcd_blink"
    /\ UNCHANGED <<ultrasonic, everMeasured, lastOk>>
    /\ lcd' = [lcd EXCEPT !.blink = "Off"]
    /\ issued' = Append(issued, "lcd.set_cursor_blink_state")
    /\ pc' = "lcd_clean"
    /\ UNCHANGED <<loggerTasks, logPipe, trigger, echo, echoRise, echoWidth,
                   waited, outcome, unit, led, config_pwm, buzzer, sg90_1,
                   sg90_2, hold, pos1, pos2, str_unit, displayed_distance,
                   atCycleStart, delays, failStreak, remembered>>

\* (variant) the display is not cleared before it is written
LcdCleanKeepsText ==
    /\ pc = "lcd_clean"
    /\ issued' = Append(issued, "lcd.clean_display")
    /\ pc' = "lcd_cursor"
    /\ UNCHANGED <<loggerTasks, logPipe, trigger, echo, echoRise, echoWidth,
                   waited, outcome, unit, led, config_pwm, buzzer, sg90_1,
                   sg90_2, hold, pos1, pos2, str_unit, displayed_distance, lcd,
                   atCycleStart, delays, failStreak, remembered, ultrasonic,
                   everMeasured, lastOk>>

\* line 177: lcd.clean_display()
LcdClean ==
    /\ pc = "lcd_clean"
    /\ UNCHANGED <<ultrasonic, everMeasured, lastOk>>
    /\ lcd' = [lcd EXCEPT !.text = <<>>, !.cursor = <<0, 0>>]
    /\ issued' = Append(issued, "lcd.clean_display")
    /\ pc' = "lcd_cursor"
    /\ UNCHANGED <<loggerTasks, logPipe, trigger, echo, echoRise, echoWidth,
                   waited, outcome, unit, led, config_pwm, buzzer, sg90_1,
                   sg90_2, hold, pos1, pos2, str_unit, displayed_distance,
                   atCycleStart, delays, failStreak, remembered>>

\* line 178: lcd.set_cursor_pos((0, 0))
LcdCursor ==
    /\ pc = "lcd_cursor"
    /\ UNCHANGED <<ultrasonic, everMeasured, lastOk>>
    /\ lcd' = [lcd EXCEPT !.cursor = <<0, 0>>]
    /\ issued' = Append(issued, "lcd.set_cursor_pos")
    /\ pc' = "lcd_write"
    /\ UNCHANGED <<loggerTasks, logPipe, trigger, echo, echoRise, echoWidth,
                   waited, outcome, unit, led, config_pwm, buzzer, sg90_1,
                   sg90_2, hold, pos1, pos2, str_unit, displayed_distance,
                   atCycleStart, delays, failStreak, remembered>>

\* the text of a display line after str is written at column col
WriteAt(text, col, str) ==
    SubSeq(text, 1, col) \o str \o SubSeq(text, col + Len(str) + 1, Len(text))

\* line 179: lcd.write_str_to_cur(&mut displayed_distance); the cycle ends and
\* the loop resumes at line 100
LcdWrite ==
    /\ pc = "lcd_write"
    /\ UNCHANGED <<ultrasonic, everMeasured, lastOk>>
    /\ lcd' = [lcd EXCEPT
                  !.text = WriteAt(lcd.text, lcd.cursor[1], displayed_distance[1]),
                  !.cursor = <<lcd.cursor[1] + Len(displayed_distance[1]), lcd.cursor[2]>>]
    /\ issued' = Append(issued, "lcd.write_str_to_cur")
    /\ unit' = Unassigned
    /\ failStreak' = 0
    /\ pc' = "delay"
    /\ UNCHANGED <<loggerTasks, logPipe, trigger, echo, echoRise, echoWidth,
                   waited, outcome, led, config_pwm, buzzer, sg90_1, sg90_2,
                   hold, pos1, pos2, str_unit, displayed_distance,
                   atCycleStart, delays, remembered>>

----------------------------------------------------------------------------
(* logger_task: lines 40-44 *)

\* the logger task runs when the main task is suspended and sends the oldest
\* queued line to the host
LoggerSend ==
    /\ loggerTasks > 0
    /\ UNCHANGED <<ultrasonic, everMeasured, lastOk>>
    /\ pc \in SuspensionPoints
    /\ logPipe # <<>>
    /\ logPipe' = Tail(logPipe)
    /\ UNCHANGED <<pc, loggerTasks, trigger, echo, echoRise, echoWidth, waited,
                   outcome, unit, led, config_pwm, buzzer, sg90_1, sg90_2, hold,
                   pos1, pos2, str_unit, displayed_distance, lcd, issued,
                   atCycleStart, delays, failStreak, remembered>>

----------------------------------------------------------------------------
(* The system *)

MainStartup == Start \/ StartupDelay \/ LcdInit \/ SensorInit \/ OutputsInit

Measure ==
    \/ MeasureTriggerHigh \/ MeasureTriggerLow
    \/ EchoStart \/ StartupTimeoutElapsed
    \/ EchoEnd \/ PulseTimeoutElapsed

Actuate ==
    \/ CheckOkSetLed \/ SetBuzzer
    \/ Servo1High \/ Servo1Low \/ Servo2High \/ Servo2Low

Display == Format \/ LogDistance \/ LcdBlinkOff \/ LcdClean \/ LcdCursor \/ LcdWrite

Main == MainStartup \/ Delay \/ Measure \/ Match \/ CheckFailed \/ Actuate \/ Display

Next == Main \/ LoggerSend

Spec == Init /\ [][Next]_vars

\* the executor resumes the main task whenever its timer or edge wait is over
FairSpec == Spec /\ WF_vars(Main)

----------------------------------------------------------------------------
(* Properties *)

ActuatorCommandNames ==
    {"led.set_high", "led.set_low", "buzzer.set_config", "sg90_1.set_high",
     "sg90_1.set_low", "sg90_2.set_high", "sg90_2.set_low"}

IsActuatorCommand(c) == c \in ActuatorCommandNames

\* the actuator commands issued so far in the current cycle
ActuatorCommands == SelectSeq(issued, IsActuatorCommand)

\* measure has returned a failure in the current cycle (the value is kept
\* until the next cycle's delay is over)
CycleFailed == outcome.tag = "Err"

\* the cycle that just ended had a measurement
CycleSucceeded == pc = "delay" /\ outcome.tag = "Ok"

\* C1: in a cycle in which measure returned NoEcho, EchoTimeout or
\* InvalidReading, the indicator line, the alarm duty value, both servo lines
\* and both servo positions are as they were when the cycle began, and no
\* actuator command has been issued in the cycle.
C1_FailureLeavesActuators ==
    CycleFailed =>
        /\ outcome.kind \in ErrorKinds
        /\ Actuators = atCycleStart
        /\ ActuatorCommands = <<>>

\* a failed cycle has ended with the indicator on, the alarm sounding and the
\* servos near, as an earlier cycle left them
C1_Witness ==
    /\ pc = "delay"
    /\ outcome = Failure("InvalidReading")
    /\ led = High
    /\ buzzer.compare_b > 0
    /\ pos1 = LongPulseMs

InMeasure == pc \in {"trigger_hold", "wait_start", "wait_end"}

\* measure has returned in the current cycle
Returned == outcome.tag # "None"

\* C3: every call of measure returns, a Measurement or a failure, whatever
\* the echo line does: the main task does not stay inside measure for ever.
C3_MeasureReturns == InMeasure ~> (pc = "match")

\* measure has returned although the echo line rose and never fell
C3_Witness ==
    /\ pc = "match"
    /\ echoRise # Never
    /\ echoRise <= StartupTimeout
    /\ echoWidth = Never
    /\ echo = High

\* C4: a failed cycle is always followed by another invocation of measure,
\* however long the run of failures, and a measurement that follows failures
\* is acted upon up to the end of its cycle.
C4_FailuresNeverHalt ==
    /\ (pc = "match" /\ outcome.tag = "Err") ~> (pc = "trigger_hold")
    /\ (pc = "match" /\ outcome.tag = "Ok" /\ failStreak > 0)
           ~> (pc = "delay" /\ outcome.tag = "Ok" /\ failStreak = 0)

\* measure is invoked again after MaxStreak consecutive failed cycles
C4_Witness ==
    /\ pc = "trigger_hold"
    /\ failStreak = MaxStreak

\* C5: when the echo line does not rise within the startup timeout, measure
\* returns NoEcho, and it has waited no longer than the startup timeout.
C5_NoEcho ==
    (Returned /\ (echoRise = Never \/ echoRise > StartupTimeout)) =>
        /\ outcome = Failure("NoEcho")
        /\ waited <= StartupTimeout

\* measure has returned NoEcho for an echo that rose one tick too late
C5_Witness ==
    /\ pc = "match"
    /\ echoRise = StartupTimeout + 1
    /\ outcome = Failure("NoEcho")

\* C6: when the echo line rises in time and does not fall within the
\* pulse-width timeout, measure returns EchoTimeout, not NoEcho and not a
\* Measurement.
C6_EchoTimeout ==
    (/\ Returned
     /\ echoRise # Never /\ echoRise <= StartupTimeout
     /\ (echoWidth = Never \/ echoWidth > PulseTimeout)) =>
        /\ outcome = Failure("EchoTimeout")
        /\ outcome # Failure("NoEcho")
        /\ outcome.tag # "Ok"

\* measure has returned EchoTimeout for an echo that fell one tick too late
C6_Witness ==
    /\ pc = "match"
    /\ echoRise = StartupTimeout
    /\ echoWidth = PulseTimeout + 1
    /\ outcome = Failure("EchoTimeout")

\* C7: a failure of measure is never carried as a distance number: main's
\* distance variable holds a number only in a cycle whose measure call
\* returned a Measurement.
C7_NoSentinelDistance == (unit # Unassigned) => outcome.tag = "Ok"

\* positions of the main task between the check of line 110 and the end of
\* a cycle that actuates
Actuating ==
    pc \in {"buzzer", "s1_high", "s1_hold", "s1_settle", "s2_hold", "s2_settle",
            "log", "lcd_blink", "lcd_clean", "lcd_cursor", "lcd_write"}

C9_Memoryless ==
    (/\ CycleSucceeded
     /\ Len(remembered) = 1
     /\ remembered[1].d = outcome.centimeters)
        => Actuators = remembered[1].acts

\* a successful cycle that changed the actuators it found
\* has ended as the remembered cycle with the same distance did
C9_Witness ==
    /\ CycleSucceeded
    /\ Len(remembered) = 1
    /\ remembered[1].d = outcome.centimeters
    /\ Actuators = remembered[1].acts
    /\ atCycleStart # Actuators

\* the number of invocations of measure in the current cycle
MeasureCalls == Len(SelectSeq(issued, LAMBDA c : c = "measure"))

\* C10: measure is invoked once per cycle and exactly one inter-cycle delay
\* has elapsed since the previous invocation (or since startup) whenever it
\* is invoked, also after a failure.
C10_OncePerCycle ==
    /\ pc = "measure" => (delays = 1 /\ MeasureCalls = 0)
    /\ MeasureCalls <= 1
    /\ Returned => MeasureCalls = 1
    /\ pc # "measure" => delays = 0

\* measure is about to be invoked in the cycle after a failed one
C10_Witness ==
    /\ pc = "measure"
    /\ failStreak > 0
    /\ delays = 1

\* positions of the main task before the ranging driver is constructed
BeforeConstruction == pc \in {"start", "startup_delay", "lcd_init", "sensor_init"}

\* C11: when the construction of the ranging driver fails, main panics there:
\* measure is never invoked and the indicator, the alarm and the servos are
\* never driven or even configured; the loop runs only with a constructed
\* driver, whose failures are never InitFailure.
C11_InitFailureIsFatal ==
    /\ ultrasonic = "InitFailure" =>
          /\ pc = "panicked"
          /\ outcome = NoOutcome /\ issued = <<>> /\ delays = 0
          /\ trigger = Low
          /\ led = Low /\ buzzer = [top |-> 0, compare_b |-> 0]
          /\ sg90_1 = Low /\ sg90_2 = Low /\ pos1 = 0 /\ pos2 = 0
    /\ ultrasonic = "none" <=> BeforeConstruction
    /\ outcome.tag = "Err" => outcome.kind # "InitFailure"

\* the construction has failed and main has stopped, the logger running
C11_Witness ==
    /\ ultrasonic = "InitFailure"
    /\ pc = "panicked"
    /\ loggerTasks = 1

\* everything but the logger's pipe
ControlLoopVars ==
    <<pc, loggerTasks, trigger, echo, echoRise, echoWidth, waited, outcome,
      unit, led, config_pwm, buzzer, sg90_1, sg90_2, hold, pos1, pos2,
      str_unit, displayed_distance, lcd, issued, atCycleStart, delays,
      failStreak, remembered, ultrasonic, everMeasured, lastOk>>

\* a step of the logger task
LoggerStep == pc' = pc /\ logPipe' # logPipe

\* C12: the logger is spawned exactly once, before the first cycle; it runs
\* only while the main task is suspended; its steps change nothing of the
\* control loop (every change of the control loop's state, its commands and
\* outcomes included, is a step of main); and whatever the logger has or has
\* not sent, the main task can take its next step.
C12_LoggerDoesNotInterfere ==
    /\ [](loggerTasks = (IF pc = "start" THEN 0 ELSE 1))
    /\ [](pc # "panicked" => ENABLED Main)
    /\ [][Main]_ControlLoopVars
    /\ [][LoggerStep => (pc \in SuspensionPoints /\ UNCHANGED ControlLoopVars)]_vars

\* the logger has sent the line of a failed cycle and main is holding the
\* pulse of servo 1 in the next cycle
C12_Witness ==
    /\ pc = "s1_hold"
    /\ sg90_1 = High
    /\ failStreak > 0
    /\ logPipe = <<>>
    /\ loggerTasks = 1

IsServoEntry(c) ==
    c \in {"sg90_1.set_high", "sg90_1.set_low", "sg90_2.set_high",
           "sg90_2.set_low", "wait_1ms", "wait_2ms", "wait_10ms"}

\* what has been done to the servo lines, and the timers awaited in between,
\* so far in the current cycle
ServoEntries == SelectSeq(issued, IsServoEntry)

\* assert, hold, deassert, settle: servo 1 with pulse a, then servo 2 with b
DriveSequence(a, b) ==
    <<"sg90_1.set_high", a, "sg90_1.set_low", "wait_10ms",
      "sg90_2.set_high", b, "sg90_2.set_low", "wait_10ms">>

IsPrefix(p, q) == Len(p) <= Len(q) /\ p = SubSeq(q, 1, Len(p))

\* C13: a successful cycle drives each servo exactly once, servo 1 before
\* servo 2, each by assert, hold, deassert and a 10 ms settle; servo 1 is
\* held 2 ms and servo 2 1 ms when the distance is at most 20.0, and 1 ms and
\* 2 ms otherwise, so the two pulses of a cycle always differ.
C13_ServoDriveSequence ==
    /\ CycleSucceeded =>
          ServoEntries = (IF outcome.centimeters <= Cm(20)
                          THEN DriveSequence("wait_2ms", "wait_1ms")
                          ELSE DriveSequence("wait_1ms", "wait_2ms"))
    /\ \/ IsPrefix(ServoEntries, DriveSequence("wait_2ms", "wait_1ms"))
       \/ IsPrefix(ServoEntries, DriveSequence("wait_1ms", "wait_2ms"))
    /\ pc = "s1_hold" => hold \in {1, 2}
    /\ pc = "s2_hold" => (hold \in {1, 2} /\ hold # pos1)

\* a cycle with distance exactly 20.0 cm has ended: 2 ms for servo 1, then
\* 1 ms for servo 2
C13_Witness ==
    /\ CycleSucceeded
    /\ outcome.centimeters = Cm(20)
    /\ ServoEntries = DriveSequence("wait_2ms", "wait_1ms")
    /\ <<pos1, pos2>> = <<2, 1>>

IsLcdEntry(c) ==
    c \in {"lcd.set_cursor_blink_state", "lcd.clean_display",
           "lcd.set_cursor_pos", "lcd.write_str_to_cur"}

\* the calls made on the display so far in the current cycle
LcdEntries == SelectSeq(issued, IsLcdEntry)

DisplayUpdate ==
    <<"lcd.set_cursor_blink_state", "lcd.clean_display", "lcd.set_cursor_pos",
      "lcd.write_str_to_cur">>

IsDigit(c) == \E n \in 1..10 : Digits[n] = c
DigitValue(c) == (CHOOSE n \in 1..10 : Digits[n] = c) - 1

RECURSIVE Number(_)
Number(str) ==
    IF str = <<>> THEN 0
    ELSE Number(SubSeq(str, 1, Len(str) - 1)) * 10 + DigitValue(str[Len(str)])

\* text is "Distance: " and then d to two decimal places: digits, a point and
\* two digits, no more than half a hundredth of a centimetre away from d
ShowsDistance(text, d) ==
    /\ Len(text) >= Len(DistancePrefix) + 4
    /\ SubSeq(text, 1, Len(DistancePrefix)) = DistancePrefix
    /\ LET num == SubSeq(text, Len(DistancePrefix) + 1, Len(text))
           whole == SubSeq(num, 1, Len(num) - 3)
           frac == SubSeq(num, Len(num) - 1, Len(num))
           shown == (Number(whole) * 100 + Number(frac)) * (UnitsPerCm \div 100)
       IN  /\ num[Len(num) - 2] = "."
           /\ \A i \in 1..Len(whole) : IsDigit(whole[i])
           /\ \A i \in 1..2 : IsDigit(frac[i])
           /\ 2 * (shown - d) <= UnitsPerCm \div 100
           /\ 2 * (d - shown) <= UnitsPerCm \div 100

\* C14: a successful cycle updates the display once, after the LED, the
\* buzzer and both servos have been driven: the display is cleared, then
\* written, and shows "Distance: " followed by the cycle's distance (to two
\* decimal places) and nothing else.
C14_DisplayUpdatedLast ==
    /\ CycleSucceeded =>
          /\ LcdEntries = DisplayUpdate
          /\ ShowsDistance(lcd.text, outcome.centimeters)
    /\ IsPrefix(LcdEntries, DisplayUpdate)
    /\ LcdEntries # <<>> =>
          /\ Len(ActuatorCommands) = 6
          /\ ServoEntries \in {DriveSequence("wait_2ms", "wait_1ms"),
                               DriveSequence("wait_1ms", "wait_2ms")}
          /\ SubSeq(issued, Len(issued) - Len(LcdEntries) + 1, Len(issued)) = LcdEntries
    /\ pc = "lcd_write" => lcd.text = <<>>

\* a cycle has ended that replaced the text of an earlier, different
\* distance: the display shows 20.00 for a distance just above 20.0 cm
C14_Witness ==
    /\ CycleSucceeded
    /\ outcome.centimeters = Cm(20) + 1
    /\ lcd.text = DistancePrefix \o <<"2", "0", ".", "0", "0">>
    /\ Len(remembered) = 1
    /\ remembered[1].d = Cm(400)

AtCycleBoundary == pc \in {"delay", "measure"}

\* C16: at a cycle boundary, servos last driven near implies alarm sounding,
\* and alarm sounding implies indicator on.
C16_NestedActuators ==
    AtCycleBoundary =>
        /\ (<<pos1, pos2>> = <<2, 1>>) => buzzer.compare_b > 0
        /\ buzzer.compare_b > 0 => led = High

\* measure is about to be invoked after a failed cycle, with the servos
\* near, the alarm sounding and the indicator on
C16_Witness ==
    /\ pc = "measure"
    /\ failStreak > 0
    /\ <<pos1, pos2>> = <<2, 1>>
    /\ buzzer.compare_b > 0
    /\ led = High

\* C17: both servo lines are low while the main task is in the inter-cycle
\* delay, when it invokes measure and while it is inside measure, and the two
\* lines are never high together.
C17_ServoLinesLow ==
    /\ (AtCycleBoundary \/ InMeasure) => (sg90_1 = Low /\ sg90_2 = Low)
    /\ ~(sg90_1 = High /\ sg90_2 = High)

\* measure is about to be invoked after both servos have been pulsed, and
\* both lines are low
C17_Witness ==
    /\ pc = "measure"
    /\ pos1 # 0 /\ pos2 # 0
    /\ sg90_1 = Low /\ sg90_2 = Low

\* C18: from startup until the first successful measurement, through any
\* number of failed cycles, the indicator is deasserted, the alarm duty value
\* is 0, no pulse has been emitted on either servo line, and no text has been
\* written to the display.
C18_QuietUntilFirstMeasurement ==
    ~everMeasured =>
        /\ led = Low
        /\ buzzer.compare_b = 0
        /\ sg90_1 = Low /\ sg90_2 = Low
        /\ hold = 0 /\ pos1 = 0 /\ pos2 = 0
        /\ ServoEntries = <<>>
        /\ lcd.text = <<>>
        /\ LcdEntries = <<>>

\* MaxStreak failed cycles have passed since startup without one successful
\* measurement, and the outputs are as they were set at construction
C18_Witness ==
    /\ pc = "delay"
    /\ ~everMeasured
    /\ failStreak = MaxStreak
    /\ CycleFailed
    /\ led = Low /\ buzzer.compare_b = 0 /\ lcd.text = <<>>

\* the steps of a cycle from its delay to the test of the substituted value
MeasurePhase ==
    pc \in {"delay", "measure", "trigger_hold", "wait_start", "wait_end",
            "match", "check"}

\* the text that would show the value substituted for a failure
FailureMarker == DistancePrefix \o float_to_string(ErrSentinel)

\* C19: a cycle whose measure call failed neither clears nor writes the
\* display: no step of it changes the display and no display command is
\* issued in it, so after it the display still shows the distance of the
\* latest successful measurement (or nothing, if there was none); the display
\* never shows -1.00 nor any text with a minus sign.
C19_FailedCycleKeepsDisplay ==
    /\ [][((MeasurePhase /\ pc' \in {"delay", "measure", "trigger_hold",
                                     "wait_start", "wait_end", "match", "check"})
            \/ CycleFailed \/ outcome'.tag = "Err") => lcd' = lcd]_vars
    /\ [](CycleFailed =>
             /\ LcdEntries = <<>>
             /\ IF everMeasured THEN ShowsDistance(lcd.text, lastOk[1])
                                ELSE lcd.text = <<>>)
    /\ [](/\ lcd.text # FailureMarker
          /\ \A i \in 1..Len(lcd.text) : lcd.text[i] # "-")

\* MaxStreak failed cycles in a row have ended and the display still shows
\* the 20.00 written by the successful cycle before them
C19_Witness ==
    /\ pc = "delay"
    /\ CycleFailed
    /\ failStreak = MaxStreak
    /\ lastOk = <<Cm(20)>>
    /\ lcd.text = DistancePrefix \o <<"2", "0", ".", "0", "0">>

====
